---------------------------- MODULE Spec2Model ----------------------------
(***************************************************************************)
(* Model of maintenance/zabbix_add_host_maintenance.py: one invocation of  *)
(* main() against a Zabbix JSON-RPC endpoint.                              *)
(*                                                                         *)
(* Strings are sequences of one-character strings, so that split(','),     *)
(* strip() and re.match are computed character by character.  The Python   *)
(* value None is the distinguished sequence <<"None">>, which no string of *)
(* single characters equals.                                               *)
(*                                                                         *)
(* The arguments are those argparse accepts (argparse itself exits with    *)
(* status 2 before main's try block and is not modelled).                  *)
(***************************************************************************)
EXTENDS Integers, Sequences, FiniteSets, TLC

\* ------------------------------------------------------------------ bounds
\* Total number of comma separated entries of --host and --group together.
MaxNames == 2
\* Length of the strings handed to parse_time_arg in SpecParse.
MaxTimeLen == 3
\* The clock read by time.time() shows one of the seconds 0..MaxClock.
MaxClock == 1

\* ----------------------------------------------------------------- strings
None == <<"None">>
Star == <<"*">>
Whitespace == {" "}
Digits == {"0", "1", "2"}

Range(s) == {s[i] : i \in DOMAIN s}

\* Python truthiness of an optional string argument: None and "" are falsy.
Truthy(s) == s # None /\ s # <<>>

RECURSIVE LStrip(_)
LStrip(s) == IF s # <<>> /\ Head(s) \in Whitespace THEN LStrip(Tail(s)) ELSE s

RECURSIVE RStrip(_)
RStrip(s) ==
    IF s # <<>> /\ s[Len(s)] \in Whitespace
    THEN RStrip(SubSeq(s, 1, Len(s) - 1))
    ELSE s

\* str.strip()
Strip(s) == RStrip(LStrip(s))

\* str.split(','): "" splits into [""], "a,,b" into ["a", "", "b"].
RECURSIVE Split(_)
Split(s) ==
    IF \A i \in DOMAIN s : s[i] # ","
    THEN <<s>>
    ELSE LET i == CHOOSE j \in DOMAIN s :
                      s[j] = "," /\ \A k \in 1..(j - 1) : s[k] # ","
         IN  <<SubSeq(s, 1, i - 1)>> \o Split(SubSeq(s, i + 1, Len(s)))

\* [x.strip() for x in s.split(',')]
SplitStrip(s) == LET parts == Split(s) IN [i \in DOMAIN parts |-> Strip(parts[i])]

\* ','.join(l), used to build the command line strings.
RECURSIVE Join(_)
Join(l) ==
    IF l = <<>> THEN <<>>
    ELSE IF Len(l) = 1 THEN l[1]
    ELSE l[1] \o <<",">> \o Join(Tail(l))

\* ---------------------------------------------------------- parse_time_arg
DigitVal(c) == CASE c = "0" -> 0 [] c = "1" -> 1 [] c = "2" -> 2

RECURSIVE IntOf(_)
IntOf(ds) == IF ds = <<>> THEN 0 ELSE 10 * IntOf(SubSeq(ds, 1, Len(ds) - 1)) + DigitVal(ds[Len(ds)])

\* Length of the longest prefix of digits: what the greedy (\d+) consumes.
RECURSIVE DigitPrefixLen(_)
DigitPrefixLen(s) ==
    IF s # <<>> /\ Head(s) \in Digits THEN 1 + DigitPrefixLen(Tail(s)) ELSE 0

\* re.fullmatch in place of re.match: nothing may follow the unit letter.
TimeFullMatches(s) ==
    LET n == DigitPrefixLen(s)
    IN  n >= 1 /\ Len(s) = n + 1 /\ s[n + 1] \in {"h", "m"}

\* re.match(r'(\d+)([hm])', time_str): anchored at the start of the string
\* only; whatever follows the unit letter is not looked at.
TimeMatches(s) ==
    LET n == DigitPrefixLen(s)
    IN  n >= 1 /\ Len(s) > n /\ s[n + 1] \in {"h", "m"}

SecondsPerHour == 3600
SecondsPerMinute == 60

\* The two factors exchanged: hours taken for minutes and minutes for hours.
ParseValueSwapped(s) ==
    LET n == DigitPrefixLen(s)
        value == IntOf(SubSeq(s, 1, n))
    IN  IF s[n + 1] = "h" THEN value * SecondsPerMinute ELSE value * SecondsPerHour

\* The value parse_time_arg returns when the match succeeds.
ParseValue(s) ==
    LET n == DigitPrefixLen(s)
        value == IntOf(SubSeq(s, 1, n))
    IN  IF s[n + 1] = "h" THEN value * SecondsPerHour ELSE value * SecondsPerMinute

\* parse_time_arg: ok = FALSE stands for the ValueError "Invalid time format".
parse_time_arg(s) ==
    IF TimeMatches(s)
    THEN [ok |-> TRUE, seconds |-> ParseValue(s)]
    ELSE [ok |-> FALSE, seconds |-> 0]

\* ------------------------------------------------------- the remote system
\* The hosts the remote system may know: host.get answers with these.
ZbxHostTable ==
    << [host |-> <<"a">>, hostid |-> <<"1">>],
       [host |-> <<"b">>, hostid |-> <<"2">>] >>

\* The host groups of the remote system and their member host names:
\* g and k share host b, e has no member.
ZbxGroupTable ==
    (<<"g">> :> << <<"a">>, <<"b">> >>) @@
    (<<"k">> :> << <<"b">> >>) @@
    (<<"e">> :> << >>)

\* Names of maintenance windows: the provisional name of line 120 embeds the
\* start time, the final name of line 149 embeds the maintenance id.
UniqueName(t) == [fmt |-> "timestamp", ts |-> t, mid |-> <<>>]
\* A final name that leaves the identifier out.
UpdatedNameAnonymous(m) == [fmt |-> "id", ts |-> 0, mid |-> << >>]
UpdatedName(m) == [fmt |-> "id", ts |-> 0, mid |-> m]

\* A maintenance window that may exist before the invocation starts.
OldWindow ==
    [maintenanceid |-> <<"7">>, name |-> UpdatedName(<<"7">>),
     active_since |-> 0, active_till |-> 60, hostids |-> << <<"1">> >>]

\* Identifiers the remote system may assign to a new window.
FreshIds == {<<"8">>, <<"9">>}

\* ------------------------------------------------------------------- state
VARIABLES
    args,              \* argparse namespace: list, delete, time, host, group
    pc,                \* position of main()
    zbxHosts,          \* remote: the host table
    maintenances,      \* remote: the set of maintenance windows
    calls,             \* every requests.post issued so far, in order
    replies,           \* the answer to each: [reply, result]
    output,            \* every line printed so far, in order
    duration_seconds,  \* main: parse_time_arg(args.time)
    names,             \* main: group_names / host_names being resolved
    i,                 \* number of entries of names already resolved
    hosts,             \* the dict host name -> hostid, in insertion order
    host_ids,          \* main: host_ids handed to create_maintenance
    maintenance_ids,   \* main: the ids handed to delete_maintenance_tasks
    maintenance_id,    \* create_maintenance: result['result']['maintenanceids'][0]
    exit_code,         \* exit status of the process, -1 while it runs
    clock              \* int(time.time()): the second the wall clock shows

vars == <<args, pc, zbxHosts, maintenances, calls, replies, output, duration_seconds,
          names, i, hosts, host_ids, maintenance_ids, maintenance_id, exit_code,
          clock>>

\* One printed line.
Out(msg, kind, arg, ids) == [msg |-> msg, kind |-> kind, arg |-> arg, ids |-> ids]

\* One JSON-RPC request.
Call(method, name, ids, mname, since, till, period) ==
    [method |-> method, name |-> name, ids |-> ids, mname |-> mname,
     since |-> since, till |-> till, period |-> period]

NoName == UniqueName(0)

\* ---------------------------------------------------------- dict of hosts
\* A list of pairs instead of a dict: every assignment appends.
DictSetAppend(d, k, v) == Append(d, [host |-> k, hostid |-> v])

\* d[k] = v on a dict kept as a sequence of [host, hostid] in insertion
\* order: an existing key keeps its place and takes the new value.
DictSet(d, k, v) ==
    IF \E j \in DOMAIN d : d[j].host = k
    THEN [j \in DOMAIN d |-> IF d[j].host = k THEN [host |-> k, hostid |-> v] ELSE d[j]]
    ELSE Append(d, [host |-> k, hostid |-> v])

\* for host in hs: d[host['host']] = host['hostid']
RECURSIVE DictMerge(_, _)
DictMerge(d, hs) ==
    IF hs = <<>> THEN d
    ELSE DictMerge(DictSet(d, Head(hs).host, Head(hs).hostid), Tail(hs))

\* list(d.values())
DictValues(d) == [j \in DOMAIN d |-> d[j].hostid]

\* --------------------------------------------------------- remote answers
\* host.get with filter host = [n]: the rows of the host table named n.
RECURSIVE SelectHosts(_, _)
SelectHosts(tbl, n) ==
    IF tbl = <<>> THEN <<>>
    ELSE (IF Head(tbl).host = n THEN <<Head(tbl)>> ELSE <<>>) \o SelectHosts(Tail(tbl), n)

\* hostgroup.get with filter name = [g] and selectHosts: no row when the
\* group does not exist, else one row carrying the member hosts.
RECURSIVE MemberRows(_, _)
MemberRows(tbl, members) ==
    IF members = <<>> THEN <<>>
    ELSE SelectHosts(tbl, Head(members)) \o MemberRows(tbl, Tail(members))

GroupRows(tbl, g) ==
    IF g \in DOMAIN ZbxGroupTable
    THEN << [hosts |-> MemberRows(tbl, ZbxGroupTable[g])] >>
    ELSE << >>

ZbxCreate(ms, mid, call) ==
    ms \cup {[maintenanceid |-> mid, name |-> call.mname,
              active_since |-> call.since, active_till |-> call.till,
              hostids |-> call.ids]}

ZbxUpdate(ms, mid, name) ==
    {IF m.maintenanceid = mid THEN [m EXCEPT !.name = name] ELSE m : m \in ms}

ZbxDelete(ms, ids) == {m \in ms : m.maintenanceid \notin Range(ids)}

\* maintenance.get sorted by active_since, descending.
ZbxList(ms) ==
    CHOOSE l \in [1..Cardinality(ms) -> ms] :
        /\ \A x, y \in DOMAIN l : x # y => l[x] # l[y]
        /\ \A x, y \in DOMAIN l : x < y => l[x].active_since >= l[y].active_since

\* ------------------------------------------------------------------ inputs
\* Entries of --host: known hosts a and b, unknown host z, a blank entry
\* and a padded entry.
HostEntries == {<<"a">>, <<"b">>, <<"z">>, <<>>, <<" ", "a", " ">>}

\* Entries of --group: groups g, k, e, unknown group n and a padded entry.
GroupEntries == {<<"g">>, <<"k">>, <<"e">>, <<"n">>, <<" ", "g">>}

\* Lists of exactly n entries drawn from E.
NameLists(E, n) == [1..n -> E]

HostArgs(n) == IF n = 0 THEN {None, Star} ELSE {Join(l) : l \in NameLists(HostEntries, n)}
GroupArgs(n) == IF n = 0 THEN {None} ELSE {Join(l) : l \in NameLists(GroupEntries, n)}

TimeArgs == {None, <<"1", "h">>, <<"x">>, <<"2", "m", "x">>}
DeleteArgs == {None, <<"7">>, <<"7", ",", " ", "9">>}

\* ---------------------------------------------------------------- Init
Init ==
    /\ \E nh, ng \in 0..MaxNames :
         /\ nh + ng <= MaxNames
         /\ \E h \in HostArgs(nh), g \in GroupArgs(ng), t \in TimeArgs,
               d \in DeleteArgs, l \in BOOLEAN :
              args = [list |-> l, delete |-> d, time |-> t, host |-> h, group |-> g]
    /\ pc = "start"
    /\ zbxHosts \in {ZbxHostTable, << >>}
    /\ maintenances \in (IF zbxHosts = << >> THEN {{}} ELSE {{}, {OldWindow}})
    /\ calls = << >>
    /\ replies = << >>
    /\ output = << >>
    /\ duration_seconds = 0
    /\ names = << >>
    /\ i = 0
    /\ hosts = << >>
    /\ host_ids = << >>
    /\ maintenance_ids = << >>
    /\ maintenance_id = None
    /\ exit_code = -1
    /\ clock \in 0..MaxClock

\* ------------------------------------------------------------ end of main
\* Exit status of the interpreter when main() returns: the script never
\* calls sys.exit, so it is 0 whatever main printed.
ExitStatus == 0

\* main returns normally after its last print.
Finish ==
    /\ pc' = "done"
    /\ exit_code' = ExitStatus

\* except Exception as e: print(f"Error: {e}"), then main returns.
Fail(kind, arg) ==
    /\ output' = Append(output, Out("Error", kind, arg, << >>))
    /\ Finish

Locals == <<duration_seconds, names, i, hosts, host_ids, maintenance_ids, maintenance_id>>
Remote == <<zbxHosts, maintenances>>
Log == <<calls, replies>>

\* ------------------------------------------------------------ actions
\* load_zabbix_config: the file holds both settings, or the Exception of
\* line 17 is raised inside main's try block.
LoadConfig ==
    /\ pc = "start"
    /\ \/ /\ pc' = "dispatch"
          /\ UNCHANGED <<output, exit_code>>
       \/ Fail("ConfigError", << >>)
    /\ UNCHANGED <<args, clock, Remote, Log, Locals>>

\* if args.list:
DispatchList ==
    /\ pc = "dispatch"
    /\ args.list
    /\ pc' = "list"
    /\ UNCHANGED <<args, clock, Remote, Log, output, Locals, exit_code>>

\* A chain that tests args.delete before args.list.
DispatchDeleteFirst ==
    /\ pc = "dispatch"
    /\ Truthy(args.delete)
    /\ maintenance_ids' = SplitStrip(args.delete)
    /\ pc' = "delete"
    /\ UNCHANGED <<args, clock, Remote, Log, output, duration_seconds, names, i,
                   hosts, host_ids, maintenance_id, exit_code>>

\* elif args.delete:
DispatchDelete ==
    /\ pc = "dispatch"
    /\ ~args.list
    /\ Truthy(args.delete)
    /\ maintenance_ids' = SplitStrip(args.delete)
    /\ pc' = "delete"
    /\ UNCHANGED <<args, clock, Remote, Log, output, duration_seconds, names, i,
                   hosts, host_ids, maintenance_id, exit_code>>

\* A chain that accepts a target only when it is the only one supplied.
TargetModeExclusive(a) ==
    IF Truthy(a.group) /\ Truthy(a.host) THEN "none"
    ELSE IF Truthy(a.group) THEN "groups"
    ELSE IF a.host = Star THEN "all"
    ELSE IF Truthy(a.host) THEN "hosts"
    ELSE "none"

\* The target chosen by the if/elif chain of lines 258-274.
TargetMode(a) ==
    IF Truthy(a.group) THEN "groups"
    ELSE IF a.host = Star THEN "all"
    ELSE IF Truthy(a.host) THEN "hosts"
    ELSE "none"

\* elif args.time: parse the duration and choose the target.
DispatchCreate ==
    /\ pc = "dispatch"
    /\ ~args.list
    /\ ~Truthy(args.delete)
    /\ Truthy(args.time)
    /\ LET r == parse_time_arg(args.time)
           mode == TargetMode(args)
       IN  IF ~r.ok
           THEN /\ Fail("InvalidTimeFormat", args.time)
                /\ UNCHANGED <<duration_seconds, names>>
           ELSE /\ duration_seconds' = r.seconds
                /\ IF mode = "none"
                   THEN /\ Fail("MustSpecifyTarget", << >>)
                        /\ UNCHANGED names
                   ELSE /\ pc' = mode
                        /\ names' = CASE mode = "groups" -> SplitStrip(args.group)
                                      [] mode = "hosts" -> Split(args.host)
                                      [] OTHER -> names
                        /\ UNCHANGED <<output, exit_code>>
    /\ UNCHANGED <<args, clock, Remote, Log, i, hosts, host_ids, maintenance_ids,
                   maintenance_id>>

\* else: raise Exception("You must specify either --list, --delete, ...")
DispatchNone ==
    /\ pc = "dispatch"
    /\ ~args.list
    /\ ~Truthy(args.delete)
    /\ ~Truthy(args.time)
    /\ Fail("MustSpecifyOperation", << >>)
    /\ UNCHANGED <<args, clock, Remote, Log, Locals>>

\* ------------------------------------------------ answers of the remote
\* What may come back for a request: nothing (requests.post or
\* response.json() raises: connection refused, timeout, a body that is no
\* JSON), an error envelope, or a result.  ms is the remote set of
\* maintenance windows once the request has been handled.
NoAnswer(ms) == [reply |-> "none", result |-> << >>, ms |-> ms]
ErrorAnswer(ms) == [reply |-> "error", result |-> << >>, ms |-> ms]
ResultAnswer(result, ms) == [reply |-> "result", result |-> result, ms |-> ms]

\* A read-only method.
Answers(result, ms) == {NoAnswer(ms), ErrorAnswer(ms), ResultAnswer(result, ms)}

\* maintenance.delete: the batch is deleted when every identifier names a
\* window and refused otherwise; the answer may be lost after the deletion.
DeleteAnswers(ms, ids) ==
    {NoAnswer(ms), ErrorAnswer(ms)}
    \cup (IF Range(ids) \subseteq {m.maintenanceid : m \in ms}
          THEN {NoAnswer(ZbxDelete(ms, ids)), ResultAnswer(ids, ZbxDelete(ms, ids))}
          ELSE {})

\* maintenance.create: an unused identifier is assigned, unless a window of
\* that name exists; the answer may be lost after the creation.
CreateAnswers(ms, req) ==
    LET free == {m \in FreshIds : \A w \in ms : w.maintenanceid # m}
    IN  {NoAnswer(ms), ErrorAnswer(ms)}
        \cup (IF \A w \in ms : w.name # req.mname
              THEN {ResultAnswer(<<m>>, ZbxCreate(ms, m, req)) : m \in free}
                   \cup {NoAnswer(ZbxCreate(ms, m, req)) : m \in free}
              ELSE {})

\* maintenance.update of the name of window mid.
UpdateAnswers(ms, mid, name) ==
    {NoAnswer(ms), ErrorAnswer(ms), NoAnswer(ZbxUpdate(ms, mid, name)),
     ResultAnswer(<<mid>>, ZbxUpdate(ms, mid, name))}

\* ------------------------------------------------- the functions of the API
\* A request without window fields (lookups, list, delete, update).
Query(method, name, ids, mname) == Call(method, name, ids, mname, 0, 0, 0)

\* What a function does with the answer: return a value or raise.
Return(value) == [raised |-> FALSE, kind |-> "", arg |-> << >>, value |-> value]
Raise(kind, arg) == [raised |-> TRUE, kind |-> kind, arg |-> arg, value |-> << >>]

\* A get_host_id that returns None for an unknown host instead of raising.
get_host_id_or_none(rep, host_name) ==
    IF rep.reply = "none" THEN Raise("Transport", << >>)
    ELSE IF rep.reply = "error" THEN Raise("ErrorFetchingHostId", host_name)
    ELSE IF rep.result # << >> THEN Return(rep.result[1].hostid)
    ELSE Return(None)

\* get_host_id: the first hostid of the answer, "Host ... not found" when
\* the answer is empty, "Error fetching host ID" on an error envelope.
get_host_id(rep, host_name) ==
    IF rep.reply = "none" THEN Raise("Transport", << >>)
    ELSE IF rep.reply = "error" THEN Raise("ErrorFetchingHostId", host_name)
    ELSE IF rep.result # << >> THEN Return(rep.result[1].hostid)
    ELSE Raise("HostNotFound", host_name)

\* get_all_host_ids: the dict comprehension over the answer.
get_all_host_ids(rep) ==
    IF rep.reply = "none" THEN Raise("Transport", << >>)
    ELSE IF rep.reply = "error" THEN Raise("ErrorFetchingAllHosts", << >>)
    ELSE Return(DictMerge(<< >>, rep.result))

\* An iteration that passes over a group the remote system answers with an
\* error envelope and goes on to the next one.
GroupIterationIgnoreError(rep, d, group_name) ==
    IF rep.reply = "none" THEN Raise("Transport", << >>)
    ELSE IF rep.reply = "error" THEN Return(d)
    ELSE IF rep.result = << >> THEN Raise("HostGroupNotFound", group_name)
    ELSE Return(DictMerge(d, rep.result[1].hosts))

\* An iteration that passes over a group the remote system does not know.
GroupIterationSkipMissing(rep, d, group_name) ==
    IF rep.reply = "none" THEN Raise("Transport", << >>)
    ELSE IF rep.reply = "error" THEN Raise("ErrorFetchingGroup", group_name)
    ELSE IF rep.result = << >> THEN Return(d)
    ELSE Return(DictMerge(d, rep.result[1].hosts))

\* One iteration of the loop of get_host_ids_by_groups: the dict host_ids
\* (d) after merging the hosts of the first row of the answer.
GroupIteration(rep, d, group_name) ==
    IF rep.reply = "none" THEN Raise("Transport", << >>)
    ELSE IF rep.reply = "error" THEN Raise("ErrorFetchingGroup", group_name)
    ELSE IF rep.result = << >> THEN Raise("HostGroupNotFound", group_name)
    ELSE Return(DictMerge(d, rep.result[1].hosts))

\* A list_maintenance_tasks that takes an empty answer for a failure.
list_maintenance_tasks_nonempty(rep) ==
    IF rep.reply = "none" THEN Raise("Transport", << >>)
    ELSE IF rep.reply = "error" THEN Raise("ErrorListing", << >>)
    ELSE IF rep.result = << >> THEN Raise("NoMaintenance", << >>)
    ELSE Return(rep.result)

\* list_maintenance_tasks
list_maintenance_tasks(rep) ==
    IF rep.reply = "none" THEN Raise("Transport", << >>)
    ELSE IF rep.reply = "error" THEN Raise("ErrorListing", << >>)
    ELSE Return(rep.result)

\* A delete_maintenance_tasks that does not look for an error envelope and
\* reports the identifiers of the answer, none.
delete_maintenance_tasks_unchecked(rep) ==
    IF rep.reply = "none" THEN Raise("Transport", << >>)
    ELSE Return(rep.result)

\* delete_maintenance_tasks
delete_maintenance_tasks(rep) ==
    IF rep.reply = "none" THEN Raise("Transport", << >>)
    ELSE IF rep.reply = "error" THEN Raise("ErrorDeleting", << >>)
    ELSE Return(rep.result)

\* The payload of lines 123-137.
CreateRequest(ids, duration, start_time) ==
    Call("maintenance.create", << >>, ids, UniqueName(start_time),
         start_time, start_time + duration, duration)

\* create_maintenance up to line 146:
\* maintenance_id = result['result']['maintenanceids'][0]
CreateStep(rep) ==
    IF rep.reply = "none" THEN Raise("Transport", << >>)
    ELSE IF rep.reply = "error" THEN Raise("ErrorCreatingMaintenance", << >>)
    ELSE Return(rep.result[1])

\* A rename addressed to the oldest window instead of the one just created.
UpdateRequestOldest(mid) ==
    Query("maintenance.update", << >>, << <<"7">> >>, UpdatedName(mid))

\* The payload of lines 149-158.
UpdateRequest(mid) == Query("maintenance.update", << >>, <<mid>>, UpdatedName(mid))

\* A rename whose error envelope is not raised.
UpdateStepLenient(rep, mid) ==
    IF rep.reply = "none" THEN Raise("Transport", << >>)
    ELSE Return(mid)

\* create_maintenance from line 160: an error envelope raises "Error
\* updating maintenance name", else maintenance_id is returned.
UpdateStep(rep, mid) ==
    IF rep.reply = "none" THEN Raise("Transport", << >>)
    ELSE IF rep.reply = "error" THEN Raise("ErrorUpdatingMaintenanceName", << >>)
    ELSE Return(mid)

\* -------------------------------------------------- the calls made by main
\* The request goes out and the answer comes back.
Post(req, rep) ==
    /\ calls' = Append(calls, req)
    /\ replies' = Append(replies, [reply |-> rep.reply, result |-> rep.result])
    /\ maintenances' = rep.ms

RECURSIVE TaskLines(_)
TaskLines(tasks) ==
    IF tasks = << >> THEN << >>
    ELSE <<Out("Task", "", Head(tasks).maintenanceid, << >>)>> \o TaskLines(Tail(tasks))

\* A chain of independent tests: after the listing, a delete request of the
\* same command line is served too.
ListCallFallsThrough ==
    /\ pc = "list"
    /\ \E rep \in Answers(ZbxList(maintenances), maintenances) :
         LET r == list_maintenance_tasks(rep)
         IN  /\ Post(Query("maintenance.get", << >>, << >>, NoName), rep)
             /\ IF r.raised
                THEN /\ Fail(r.kind, r.arg)
                     /\ UNCHANGED maintenance_ids
                ELSE /\ output' = output \o TaskLines(r.value)
                     /\ IF Truthy(args.delete)
                        THEN /\ maintenance_ids' = SplitStrip(args.delete)
                             /\ pc' = "delete"
                             /\ UNCHANGED exit_code
                        ELSE /\ Finish
                             /\ UNCHANGED maintenance_ids
    /\ UNCHANGED <<args, clock, zbxHosts, duration_seconds, names, i, hosts, host_ids,
                   maintenance_id>>

\* tasks = list_maintenance_tasks(...) and the print loop of lines 243-246.
ListCall ==
    /\ pc = "list"
    /\ \E rep \in Answers(ZbxList(maintenances), maintenances) :
         LET r == list_maintenance_tasks(rep)
         IN  /\ Post(Query("maintenance.get", << >>, << >>, NoName), rep)
             /\ IF r.raised
                THEN Fail(r.kind, r.arg)
                ELSE /\ output' = output \o TaskLines(r.value)
                     /\ Finish
    /\ UNCHANGED <<args, clock, zbxHosts, Locals>>

\* deleted_ids = delete_maintenance_tasks(...) and the print of line 252.
DeleteCall ==
    /\ pc = "delete"
    /\ \E rep \in DeleteAnswers(maintenances, maintenance_ids) :
         LET r == delete_maintenance_tasks(rep)
         IN  /\ Post(Query("maintenance.delete", << >>, maintenance_ids, NoName), rep)
             /\ IF r.raised
                THEN Fail(r.kind, r.arg)
                ELSE /\ output' = Append(output, Out("Deleted", "", << >>, r.value))
                     /\ Finish
    /\ UNCHANGED <<args, clock, zbxHosts, Locals>>

\* hosts = get_host_ids_by_groups(...), one group per step; after the last
\* group, lines 261-262 of main.
GroupLookup ==
    /\ pc = "groups"
    /\ \E rep \in Answers(GroupRows(zbxHosts, names[i + 1]), maintenances) :
         LET r == GroupIteration(rep, hosts, names[i + 1])
         IN  /\ Post(Query("hostgroup.get", names[i + 1], << >>, NoName), rep)
             /\ IF r.raised
                THEN /\ Fail(r.kind, r.arg)
                     /\ UNCHANGED <<i, hosts, host_ids>>
                ELSE /\ hosts' = r.value
                     /\ i' = i + 1
                     /\ IF i + 1 < Len(names)
                        THEN UNCHANGED <<pc, host_ids, output, exit_code>>
                        ELSE /\ host_ids' = DictValues(r.value)
                             /\ output' = Append(output,
                                                 Out("PuttingGroups", "", << >>, names))
                             /\ pc' = "create"
                             /\ UNCHANGED exit_code
    /\ UNCHANGED <<args, clock, zbxHosts, duration_seconds, names, maintenance_ids,
                   maintenance_id>>

\* hosts = get_all_host_ids(...) and lines 266-267 of main.
AllLookup ==
    /\ pc = "all"
    /\ \E rep \in Answers(zbxHosts, maintenances) :
         LET r == get_all_host_ids(rep)
         IN  /\ Post(Query("host.get", None, << >>, NoName), rep)
             /\ IF r.raised
                THEN /\ Fail(r.kind, r.arg)
                     /\ UNCHANGED <<hosts, host_ids>>
                ELSE /\ hosts' = r.value
                     /\ host_ids' = DictValues(r.value)
                     /\ output' = Append(output, Out("PuttingAll", "", << >>, << >>))
                     /\ pc' = "create"
                     /\ UNCHANGED exit_code
    /\ UNCHANGED <<args, clock, zbxHosts, duration_seconds, names, i, maintenance_ids,
                   maintenance_id>>

\* A lookup that is sent a second time for the same entry when the first
\* request of the entry gets no answer.
HostStepRetry(host_name) ==
    \E rep \in Answers(SelectHosts(zbxHosts, host_name), maintenances) :
      LET r == get_host_id(rep, host_name)
      IN  /\ Post(Query("host.get", host_name, << >>, NoName), rep)
          /\ IF rep.reply = "none" /\ Len(calls) = i
             THEN UNCHANGED <<i, host_ids, pc, output, exit_code>>
             ELSE IF r.raised
             THEN /\ Fail(r.kind, r.arg)
                  /\ UNCHANGED <<i, host_ids>>
             ELSE /\ host_ids' = Append(host_ids, r.value)
                  /\ i' = i + 1
                  /\ pc' = IF i + 1 < Len(names) THEN "hosts" ELSE "create"
                  /\ UNCHANGED <<output, exit_code>>

\* get_host_id(zabbix_url, headers, host_name) called from the list
\* comprehension of line 271, and the append of its value to host_ids.
HostStep(host_name) ==
    \E rep \in Answers(SelectHosts(zbxHosts, host_name), maintenances) :
      LET r == get_host_id(rep, host_name)
      IN  /\ Post(Query("host.get", host_name, << >>, NoName), rep)
          /\ IF r.raised
             THEN /\ Fail(r.kind, r.arg)
                  /\ UNCHANGED <<i, host_ids>>
             ELSE /\ host_ids' = Append(host_ids, r.value)
                  /\ i' = i + 1
                  /\ pc' = IF i + 1 < Len(names) THEN "hosts" ELSE "create"
                  /\ UNCHANGED <<output, exit_code>>

\* A comprehension that filters blank entries out:
\* [... for host_name in host_names if host_name.strip()].
HostLookupSkipBlank ==
    /\ pc = "hosts"
    /\ IF Strip(names[i + 1]) = << >>
       THEN /\ i' = i + 1
            /\ pc' = IF i + 1 < Len(names) THEN "hosts" ELSE "create"
            /\ UNCHANGED <<Log, maintenances, host_ids, output, exit_code>>
       ELSE HostStep(Strip(names[i + 1]))
    /\ UNCHANGED <<args, clock, zbxHosts, duration_seconds, names, hosts, maintenance_ids,
                   maintenance_id>>

\* One element of the list comprehension of line 271, for every entry of
\* args.host.split(','): get_host_id(..., host_name.strip()).
HostLookup ==
    /\ pc = "hosts"
    /\ HostStep(Strip(names[i + 1]))
    /\ UNCHANGED <<args, clock, zbxHosts, duration_seconds, names, hosts, maintenance_ids,
                   maintenance_id>>

\* create_maintenance(zabbix_url, headers, ids, duration), first request:
\* start_time = int(time.time()), then maintenance.create.
CreateFirst(ids, duration) ==
    LET start_time == clock
        req == CreateRequest(ids, duration, start_time)
    IN  \E rep \in CreateAnswers(maintenances, req) :
          LET r == CreateStep(rep)
          IN  /\ Post(req, rep)
              /\ IF r.raised
                 THEN /\ Fail(r.kind, r.arg)
                      /\ UNCHANGED maintenance_id
                 ELSE /\ maintenance_id' = r.value
                      /\ pc' = "update"
                      /\ UNCHANGED <<output, exit_code>>

\* A main that rejects an empty host_ids before calling create_maintenance.
CreateCallChecked ==
    /\ pc = "create"
    /\ IF host_ids = << >>
       THEN /\ Fail("EmptyTargetSet", << >>)
            /\ UNCHANGED <<Log, maintenances, maintenance_id>>
       ELSE CreateFirst(host_ids, duration_seconds)
    /\ UNCHANGED <<args, clock, zbxHosts, duration_seconds, names, i, hosts, host_ids,
                   maintenance_ids>>

\* Line 276: create_maintenance is called with host_ids as resolved,
\* whatever its length.
CreateCall ==
    /\ pc = "create"
    /\ CreateFirst(host_ids, duration_seconds)
    /\ UNCHANGED <<args, clock, zbxHosts, duration_seconds, names, i, hosts, host_ids,
                   maintenance_ids>>

\* create_maintenance, second request (maintenance.update), and the print of
\* line 277 once create_maintenance has returned.
UpdateCall ==
    /\ pc = "update"
    /\ \E rep \in UpdateAnswers(maintenances, UpdateRequest(maintenance_id).ids[1],
                                 UpdateRequest(maintenance_id).mname) :
         LET r == UpdateStep(rep, maintenance_id)
         IN  /\ Post(UpdateRequest(maintenance_id), rep)
             /\ IF r.raised
                THEN Fail(r.kind, r.arg)
                ELSE /\ output' = Append(output, Out("Created", "", r.value, << >>))
                     /\ Finish
    /\ UNCHANGED <<args, clock, zbxHosts, Locals>>

Next ==
    \/ LoadConfig
    \/ DispatchList
    \/ DispatchDelete
    \/ DispatchCreate
    \/ DispatchNone
    \/ ListCall
    \/ DeleteCall
    \/ GroupLookup
    \/ AllLookup
    \/ HostLookup
    \/ CreateCall
    \/ UpdateCall

Spec == Init /\ [][Next]_vars

\* The interpreter runs main to its end: a step that can be taken is taken,
\* and a request that is posted comes back with an answer or an exception
\* in the same step.
FairSpec == Spec /\ WF_vars(Next)

\* --------------------------------------------------------------- typing
TypeOK ==
    /\ pc \in {"start", "dispatch", "list", "delete", "groups", "all", "hosts",
               "create", "update", "done"}
    /\ exit_code \in {-1, ExitStatus}
    /\ i \in 0..Len(names)
    /\ Len(replies) = Len(calls)

\* ------------------------------------------- the duration parser on its own
TimeAlphabet == Digits \cup {"h", "m", "x"}

\* Every string of at most MaxTimeLen characters.
TimeStrings == UNION {[1..n -> TimeAlphabet] : n \in 0..MaxTimeLen}

InitParse ==
    /\ \E t \in TimeStrings :
         args = [list |-> FALSE, delete |-> None, time |-> t, host |-> None,
                 group |-> None]
    /\ pc = "parse"
    /\ zbxHosts = << >>
    /\ maintenances = {}
    /\ calls = << >>
    /\ replies = << >>
    /\ output = << >>
    /\ duration_seconds = 0
    /\ names = << >>
    /\ i = 0
    /\ hosts = << >>
    /\ host_ids = << >>
    /\ maintenance_ids = << >>
    /\ maintenance_id = None
    /\ exit_code = -1
    /\ clock = 0

\* duration_seconds = parse_time_arg(args.time), the ValueError being caught
\* and printed by main.
ParseTime ==
    /\ pc = "parse"
    /\ LET r == parse_time_arg(args.time)
       IN  IF r.ok
           THEN /\ duration_seconds' = r.seconds
                /\ pc' = "parsed"
                /\ UNCHANGED <<output, exit_code>>
           ELSE /\ Fail("InvalidTimeFormat", args.time)
                /\ UNCHANGED duration_seconds
    /\ UNCHANGED <<args, clock, Remote, Log, names, i, hosts, host_ids, maintenance_ids,
                   maintenance_id>>

SpecParse == InitParse /\ [][ParseTime]_vars

\* ------------------------------------------- two invocations, one remote
\* Two runs of the script against the same Zabbix server, each taken from
\* the call of create_maintenance (line 276) with the host_ids and
\* duration_seconds its main has resolved.  The variables of one run become
\* functions of the run; maintenances and the clock of the machine (whole
\* seconds, as int(time.time()) reads it) are shared.
Procs == {1, 2}

HostArgOf(ids) == IF ids = << <<"1">> >> THEN <<"a">> ELSE <<"b">>

InitConcurrent ==
    /\ host_ids \in [Procs -> {<< <<"1">> >>, << <<"2">> >>}]
    /\ duration_seconds \in [Procs -> {SecondsPerMinute, SecondsPerHour}]
    /\ args = [p \in Procs |->
                 [list |-> FALSE, delete |-> None,
                  time |-> IF duration_seconds[p] = SecondsPerHour
                           THEN <<"1", "h">> ELSE <<"1", "m">>,
                  host |-> HostArgOf(host_ids[p]), group |-> None]]
    /\ pc = [p \in Procs |-> "create"]
    /\ zbxHosts = ZbxHostTable
    /\ maintenances \in {{}, {OldWindow}}
    /\ calls = [p \in Procs |-> << >>]
    /\ replies = [p \in Procs |-> << >>]
    /\ output = [p \in Procs |-> << >>]
    /\ names = [p \in Procs |-> <<args[p].host>>]
    /\ i = [p \in Procs |-> 1]
    /\ hosts = [p \in Procs |-> << >>]
    /\ maintenance_ids = [p \in Procs |-> << >>]
    /\ maintenance_id = [p \in Procs |-> None]
    /\ exit_code = [p \in Procs |-> -1]
    /\ clock = 0

\* A second passes on the machine the runs start on.
Tick ==
    /\ clock < MaxClock
    /\ clock' = clock + 1
    /\ UNCHANGED <<args, pc, zbxHosts, maintenances, calls, replies, output,
                   duration_seconds, names, i, hosts, host_ids, maintenance_ids,
                   maintenance_id, exit_code>>

\* Post, for run p.
PostOf(p, req, rep) ==
    /\ calls' = [calls EXCEPT ![p] = Append(@, req)]
    /\ replies' = [replies EXCEPT ![p] =
                      Append(@, [reply |-> rep.reply, result |-> rep.result])]
    /\ maintenances' = rep.ms

\* Fail, for run p.
FailOf(p, kind, arg) ==
    /\ output' = [output EXCEPT ![p] = Append(@, Out("Error", kind, arg, << >>))]
    /\ pc' = [pc EXCEPT ![p] = "done"]
    /\ exit_code' = [exit_code EXCEPT ![p] = ExitStatus]

\* Run p: create_maintenance up to line 146.
CreateCallOf(p) ==
    /\ pc[p] = "create"
    /\ LET start_time == clock
           req == CreateRequest(host_ids[p], duration_seconds[p], start_time)
       IN  \E rep \in CreateAnswers(maintenances, req) :
             LET r == CreateStep(rep)
             IN  /\ PostOf(p, req, rep)
                 /\ IF r.raised
                    THEN /\ FailOf(p, r.kind, r.arg)
                         /\ UNCHANGED maintenance_id
                    ELSE /\ maintenance_id' = [maintenance_id EXCEPT ![p] = r.value]
                         /\ pc' = [pc EXCEPT ![p] = "update"]
                         /\ UNCHANGED <<output, exit_code>>
    /\ UNCHANGED <<args, clock, zbxHosts, duration_seconds, names, i, hosts, host_ids,
                   maintenance_ids>>

\* Run p: create_maintenance from line 148, and the print of line 277.
UpdateCallOf(p) ==
    /\ pc[p] = "update"
    /\ LET req == UpdateRequest(maintenance_id[p])
       IN  \E rep \in UpdateAnswers(maintenances, req.ids[1], req.mname) :
             LET r == UpdateStep(rep, maintenance_id[p])
             IN  /\ PostOf(p, req, rep)
                 /\ IF r.raised
                    THEN FailOf(p, r.kind, r.arg)
                    ELSE /\ output' = [output EXCEPT ![p] =
                                          Append(@, Out("Created", "", r.value, << >>))]
                         /\ pc' = [pc EXCEPT ![p] = "done"]
                         /\ exit_code' = [exit_code EXCEPT ![p] = ExitStatus]
    /\ UNCHANGED <<args, clock, zbxHosts, duration_seconds, names, i, hosts, host_ids,
                   maintenance_ids, maintenance_id>>

NextConcurrent ==
    \/ Tick
    \/ \E p \in Procs : CreateCallOf(p)
    \/ \E p \in Procs : UpdateCallOf(p)

SpecConcurrent == InitConcurrent /\ [][NextConcurrent]_vars

\* ------------------------------------------------------ reading a state
Done == pc = "done"
LastLine == output[Len(output)]
Failed == Done /\ output # << >> /\ LastLine.msg = "Error"
FailedWith(kind) == Failed /\ LastLine.kind = kind
Printed(msg) == \E j \in DOMAIN output : output[j].msg = msg
Succeeded == Done /\ ~Printed("Error")
Issued(method) == \E j \in DOMAIN calls : calls[j].method = method

\* main got past load_zabbix_config and the if/elif chain of operations.
Dispatched == pc \notin {"start", "dispatch"} /\ ~FailedWith("ConfigError")

\* The operations the command line asks for.
WantsList == args.list
WantsDelete == Truthy(args.delete)
WantsCreate == Truthy(args.time)
OpCount ==
    (IF WantsList THEN 1 ELSE 0) + (IF WantsDelete THEN 1 ELSE 0)
    + (IF WantsCreate THEN 1 ELSE 0)

\* The invocation is a create invocation: the only operation main runs.
IsCreate == WantsCreate /\ ~WantsList /\ ~WantsDelete

\* The targets the command line supplies.
HasGroupList == Truthy(args.group)
HasWildcard == args.host = Star
HasHostList == Truthy(args.host) /\ args.host # Star
TargetCount ==
    (IF HasGroupList THEN 1 ELSE 0) + (IF HasWildcard THEN 1 ELSE 0)
    + (IF HasHostList THEN 1 ELSE 0)

\* args.time is one or more digits followed by one unit letter, nothing else.
WellFormedTime(t) ==
    /\ t # None
    /\ Len(t) >= 2
    /\ \A k \in 1..(Len(t) - 1) : t[k] \in Digits
    /\ t[Len(t)] \in {"h", "m"}

\* args.time begins with one or more digits followed by a unit letter.
HasTimePrefix(t) ==
    /\ t # None
    /\ \E n \in 1..(Len(t) - 1) :
         /\ \A k \in 1..n : t[k] \in Digits
         /\ t[n + 1] \in {"h", "m"}

NoDuplicates(seq) == \A x, y \in DOMAIN seq : x # y => seq[x] # seq[y]

\* ------------------------------------------------------------------ C1
\* C1 as stated: when maintenance.create succeeded and the maintenance.update
\* that follows is answered with an error, the invocation still ends in
\* success and reports the window as created under the identifier returned
\* by maintenance.create.
RenameRefused ==
    /\ Done
    /\ Len(calls) >= 2
    /\ calls[Len(calls)].method = "maintenance.update"
    /\ replies[Len(calls)].reply = "error"
    /\ calls[Len(calls) - 1].method = "maintenance.create"
    /\ replies[Len(calls) - 1].reply = "result"

C1_RenameFailureIsWarning ==
    RenameRefused =>
        /\ ~Failed
        /\ \E j \in DOMAIN output :
             /\ output[j].msg = "Created"
             /\ output[j].arg = replies[Len(calls) - 1].result[1]

\* C1 as amended: in that case the window exists on the remote system under
\* its provisional name, but the invocation ends in failure: its last line is
\* the error "Error updating maintenance name" and no window is reported as
\* created.
C1_RenameFailureIsFatal ==
    RenameRefused =>
        /\ FailedWith("ErrorUpdatingMaintenanceName")
        /\ ~Printed("Created")
        /\ \E w \in maintenances :
             /\ w.maintenanceid = replies[Len(calls) - 1].result[1]
             /\ w.name = calls[Len(calls) - 1].mname

C1_Witness == RenameRefused /\ Len(output) = 1

\* ------------------------------------------------------------------ C2
\* C2 as stated: a create invocation supplying zero or more than one of
\* {host list, group list, wildcard} ends in a target failure, and no remote
\* call has been issued.
CreateValidated == IsCreate /\ HasTimePrefix(args.time) /\ Dispatched

C2_AmbiguousTargetRejected ==
    (CreateValidated /\ TargetCount # 1 /\ Done) =>
        /\ calls = << >>
        /\ FailedWith("MustSpecifyTarget")

\* C2 as amended: a create invocation supplying none of the three ends in
\* the failure "You must specify either --host, --group, or * for all hosts"
\* with no remote call issued; one supplying a group list together with a
\* host list or the wildcard is not rejected: the group list is resolved
\* (hostgroup.get for its entries, never host.get) and the host argument is
\* ignored.
C2_GroupTakesPrecedence ==
    CreateValidated =>
        /\ TargetCount = 0 => (calls = << >> /\ FailedWith("MustSpecifyTarget"))
        /\ TargetCount > 1 =>
             /\ ~FailedWith("MustSpecifyTarget")
             /\ ~Issued("host.get")
             /\ names = SplitStrip(args.group)
             /\ Done => Issued("hostgroup.get")

C2_Witness ==
    /\ CreateValidated
    /\ HasGroupList /\ HasHostList
    /\ Succeeded
    /\ Printed("Created")

\* ------------------------------------------------------------------ C3
\* The lookups of a create invocation were all answered with a match.
LookupMatched(j) ==
    /\ calls[j].method \in {"host.get", "hostgroup.get"}
    /\ replies[j].reply = "result"
    /\ calls[j].name = None \/ replies[j].result # << >>

Resolved ==
    /\ CreateValidated
    /\ TargetMode(args) # "none"
    /\ Cardinality({j \in DOMAIN calls : LookupMatched(j)})
         = (IF TargetMode(args) = "all" THEN 1 ELSE Len(names))

\* C3 as stated: when target resolution yields zero host identifiers the
\* invocation fails with EmptyTargetSet and maintenance.create is never
\* issued.
C3_EmptyTargetRejected ==
    (Resolved /\ host_ids = << >>) =>
        /\ ~Issued("maintenance.create")
        /\ Done => FailedWith("EmptyTargetSet")

\* C3 as amended: when target resolution yields zero host identifiers the
\* invocation makes no check of its own: maintenance.create is issued with an
\* empty host identifier list, and the invocation fails only if that request
\* or the rename fails.
C3_EmptyTargetSentToRemote ==
    (Resolved /\ host_ids = << >> /\ Done) =>
        /\ \E j \in DOMAIN calls :
             calls[j].method = "maintenance.create" /\ calls[j].ids = << >>
        /\ Failed => LastLine.kind \in {"Transport", "ErrorCreatingMaintenance",
                                        "ErrorUpdatingMaintenanceName"}

C3_Witness ==
    /\ Resolved
    /\ host_ids = << >>
    /\ TargetMode(args) = "groups"
    /\ zbxHosts # << >>
    /\ Succeeded
    /\ \E w \in maintenances : w.hostids = << >> /\ w.maintenanceid = maintenance_id

\* ------------------------------------------------------------------ C4
\* C4 as stated: an invocation requesting more than one of list, delete and
\* create ends in a ConflictingOperations failure with no remote call
\* issued.
C4_ConflictingOperationsRejected ==
    (Dispatched /\ OpCount > 1 /\ Done) =>
        /\ calls = << >>
        /\ FailedWith("ConflictingOperations")

\* The operation main runs, and the methods it may call.
Chosen == IF WantsList THEN "list" ELSE IF WantsDelete THEN "delete" ELSE "create"
MethodsOf(op) ==
    CASE op = "list" -> {"maintenance.get"}
      [] op = "delete" -> {"maintenance.delete"}
      [] op = "create" -> {"host.get", "hostgroup.get", "maintenance.create",
                           "maintenance.update"}

\* C4 as amended: an invocation requesting more than one of list, delete and
\* create is not rejected: exactly one operation runs, list before delete
\* before create, the other requests are ignored, and only the remote calls
\* of the operation that runs are issued.
C4_FirstOperationWins ==
    (Dispatched /\ OpCount > 1) =>
        /\ \A j \in DOMAIN calls : calls[j].method \in MethodsOf(Chosen)
        /\ ~FailedWith("MustSpecifyOperation")
        /\ (Done /\ Chosen \in {"list", "delete"}) => Len(calls) = 1

C4_Witness ==
    /\ WantsList /\ WantsDelete /\ WantsCreate
    /\ Succeeded
    /\ Issued("maintenance.get")

\* ------------------------------------------------------------------ C5
\* C5: the exit status is zero exactly when the operation fully succeeded;
\* every validation or remote failure ends with a non-zero exit status.
C5_ExitStatusTellsFailure ==
    Done => (exit_code = 0 <=> ~Failed)

\* ------------------------------------------------------------------ C6
\* C6: the host identifier list carried by maintenance.create contains no
\* identifier more than once, whatever the target mode and the input.
C6_CreateRequestHasNoDuplicateIds ==
    \A j \in DOMAIN calls :
        calls[j].method = "maintenance.create" => NoDuplicates(calls[j].ids)

\* ------------------------------------------------------------------ C7
HostsMode == CreateValidated /\ TargetMode(args) = "hosts"

\* n is e without its surrounding whitespace.
IsTrimOf(n, e) ==
    /\ n # << >> => (n[1] \notin Whitespace /\ n[Len(n)] \notin Whitespace)
    /\ \E a \in 0..(Len(e) - Len(n)) :
         /\ \A k \in 1..Len(n) : e[a + k] = n[k]
         /\ \A k \in 1..a : e[k] \in Whitespace
         /\ \A k \in (a + Len(n) + 1)..Len(e) : e[k] \in Whitespace

HostGets == {j \in DOMAIN calls : calls[j].method = "host.get"}

\* The lookup of calls[j] found no host.
NoMatch(j) == replies[j].reply = "result" /\ replies[j].result = << >>

\* C7 as stated: an entry of the host list that is empty after trimming is
\* skipped: no lookup is issued for it and it causes no error.
C7_BlankEntriesSkipped ==
    HostsMode =>
        /\ \A j \in HostGets : calls[j].name # << >>
        /\ ~(FailedWith("HostNotFound") /\ LastLine.arg = << >>)

\* C7 as amended: every entry of the host list is trimmed of surrounding
\* whitespace and looked up in input order, an entry that is empty after
\* trimming included: host.get is issued for the empty name, and the
\* invocation fails with "Host  not found" when the remote system returns no
\* match for it; maintenance.create is reached only after one lookup per
\* entry.
C7_BlankEntriesLookedUp ==
    HostsMode =>
        /\ \A j \in HostGets : j <= Len(names) /\ IsTrimOf(calls[j].name, names[j])
        /\ Issued("maintenance.create") => Cardinality(HostGets) = Len(names)
        /\ \A j \in HostGets :
             (calls[j].name = << >> /\ NoMatch(j)) =>
                 (FailedWith("HostNotFound") /\ LastLine.arg = << >>)

C7_Witness ==
    /\ HostsMode
    /\ Len(calls) = 2
    /\ Len(names) = 2
    /\ names[2] = << >>
    /\ calls[2].method = "host.get" /\ calls[2].name = << >>
    /\ FailedWith("HostNotFound")

\* ------------------------------------------------------------------ C8
\* C8: when a host.get of an explicit host list returns zero matches, the
\* invocation fails with HostNotFound for that name, and that lookup is its
\* last remote call: no host.get for a later name and no maintenance.create.
C8_FailFastOnUnknownHost ==
    HostsMode =>
        \A j \in HostGets :
            NoMatch(j) =>
                /\ j = Len(calls)
                /\ FailedWith("HostNotFound")
                /\ LastLine.arg = calls[j].name
                /\ ~Issued("maintenance.create")
                /\ ~Printed("Created")

C8_Witness ==
    /\ HostsMode
    /\ Len(names) = 2
    /\ Len(calls) = 1
    /\ NoMatch(1)
    /\ calls[1].name = <<"z">>
    /\ Done

\* ------------------------------------------------------------------ C9
GroupsMode == CreateValidated /\ TargetMode(args) = "groups"

GroupGets == {j \in DOMAIN calls : calls[j].method = "hostgroup.get" /\ LookupMatched(j)}

\* The member host names of the groups answered so far.
MemberNames(j) == {h.host : h \in Range(replies[j].result[1].hosts)}
AnsweredMembers == UNION {MemberNames(j) : j \in GroupGets}

\* C9: the map built from the groups has exactly one entry per distinct
\* member host name, and its key set is the union of the member host names
\* of the groups looked up.
C9_GroupMapIsUnionOfMembers ==
    GroupsMode =>
        /\ NoDuplicates([j \in DOMAIN hosts |-> hosts[j].host])
        /\ {hosts[j].host : j \in DOMAIN hosts} = AnsweredMembers
        /\ Resolved => Len(host_ids) = Cardinality(AnsweredMembers)

C9_Witness ==
    /\ GroupsMode
    /\ Resolved
    /\ Len(names) = 2
    /\ names[1] # names[2]
    /\ MemberNames(1) \cap MemberNames(2) # {}
    /\ Len(hosts) = 2

\* ------------------------------------------------------------------ C10
\* C10 as stated: parse_time_arg fails, returning no value, for every string
\* that is not exactly one or more digits followed by one of 'h' and 'm'.
C10_RejectsAllButDigitsAndUnit ==
    (pc \in {"parsed", "done"} /\ ~WellFormedTime(args.time)) =>
        FailedWith("InvalidTimeFormat")

\* C10 as amended: parse_time_arg fails, returning no value, exactly for the
\* strings that do not begin with one or more digits immediately followed by
\* 'h' or 'm' (the empty string, no leading digit, an unknown unit); what
\* follows the unit letter is not looked at, so "2mx" is accepted.
C10_RejectsAllWithoutPrefix ==
    pc \in {"parsed", "done"} =>
        /\ FailedWith("InvalidTimeFormat") <=> ~HasTimePrefix(args.time)
        /\ pc = "parsed" <=> HasTimePrefix(args.time)

C10_Witness ==
    /\ FailedWith("InvalidTimeFormat")
    /\ \E k \in DOMAIN args.time : args.time[k] \in Digits
    /\ \E k \in DOMAIN args.time : args.time[k] \in {"h", "m"}

\* ------------------------------------------------------------------ C11
\* The number a string of decimal digits denotes, digit by digit from the
\* left.
DecimalDigit == ("0" :> 0) @@ ("1" :> 1) @@ ("2" :> 2)

RECURSIVE Pow10(_)
Pow10(n) == IF n = 0 THEN 1 ELSE 10 * Pow10(n - 1)

RECURSIVE NumberOf(_)
NumberOf(ds) ==
    IF ds = << >> THEN 0
    ELSE DecimalDigit[Head(ds)] * Pow10(Len(ds) - 1) + NumberOf(Tail(ds))

\* C11: for a string <digits>h parse_time_arg returns digits * 3600, for a
\* string <digits>m it returns digits * 60, a non-negative number of seconds.
C11_SecondsOfDigitsAndUnit ==
    (pc \in {"parsed", "done"} /\ WellFormedTime(args.time)) =>
        LET t == args.time
            digits == SubSeq(t, 1, Len(t) - 1)
        IN  /\ pc = "parsed"
            /\ duration_seconds =
                 NumberOf(digits) * (IF t[Len(t)] = "h" THEN 3600 ELSE 60)
            /\ duration_seconds >= 0

C11_Witness ==
    /\ pc = "parsed"
    /\ args.time = <<"1", "2", "m">>
    /\ duration_seconds = 720

\* ------------------------------------------------------------------ C12
\* The invocation is a delete invocation: main runs the delete operation.
IsDelete == WantsDelete /\ ~WantsList

\* C12: a delete invocation issues exactly one maintenance.delete request,
\* carrying every entry of the identifier list, trimmed; when the remote
\* system answers it with an error the invocation fails with the remote
\* failure, reports no deleted identifier, and issues no further request.
C12_DeleteIsOneBatchRequest ==
    (IsDelete /\ Dispatched) =>
        /\ Len(calls) <= 1
        /\ Done => Len(calls) = 1
        /\ \A j \in DOMAIN calls :
             /\ calls[j].method = "maintenance.delete"
             /\ Len(calls[j].ids) = Len(Split(args.delete))
             /\ \A k \in DOMAIN calls[j].ids :
                  IsTrimOf(calls[j].ids[k], Split(args.delete)[k])
             /\ replies[j].reply = "error" =>
                  /\ FailedWith("ErrorDeleting")
                  /\ ~Printed("Deleted")

C12_Witness ==
    /\ IsDelete
    /\ Done
    /\ Len(calls) = 1
    /\ calls[1].ids = << <<"7">>, <<"9">> >>
    /\ replies[1].reply = "error"
    /\ OldWindow \in maintenances

\* ------------------------------------------------------------------ C13
\* C13: a list invocation to which the remote system answers with zero
\* maintenance windows ends in success with nothing listed, not in failure.
C13_EmptyListIsSuccess ==
    (WantsList /\ Done /\ Len(calls) = 1 /\ replies[1].reply = "result"
       /\ replies[1].result = << >>) =>
        /\ Succeeded
        /\ output = << >>
        /\ calls[1].method = "maintenance.get"

C13_Witness ==
    /\ WantsList
    /\ Done
    /\ maintenances = {}
    /\ Len(calls) = 1
    /\ replies[1].reply = "result"
    /\ output = << >>

\* ------------------------------------------------------------------ C14
\* C14: a window of the remote system goes away only by the
\* maintenance.delete of a delete invocation whose identifier list names it,
\* and changes only by the maintenance.update of a create invocation that
\* addresses the window its own maintenance.create has just returned, and
\* then only in its name; windows appear only by maintenance.create.  Every
\* other step (list, lookups) leaves the windows as they are.
C14_WindowsChangeOnlyByOwnRequests ==
    [][ LET n == Len(calls')
        IN  /\ maintenances' # maintenances =>
                 /\ n = Len(calls) + 1
                 /\ calls'[n].method \in {"maintenance.create", "maintenance.update",
                                          "maintenance.delete"}
            /\ \A w \in maintenances' :
                 w \notin maintenances =>
                     \/ calls'[n].method = "maintenance.create" /\ IsCreate
                     \/ calls'[n].method = "maintenance.update"
            /\ \A w \in maintenances :
                 w \notin maintenances' =>
                     \/ /\ calls'[n].method = "maintenance.delete"
                        /\ IsDelete
                        /\ w.maintenanceid \in Range(calls'[n].ids)
                        /\ maintenances' \subseteq maintenances
                     \/ /\ calls'[n].method = "maintenance.update"
                        /\ IsCreate
                        /\ n >= 2
                        /\ calls[n - 1].method = "maintenance.create"
                        /\ replies[n - 1].reply = "result"
                        /\ w.maintenanceid = replies[n - 1].result[1]
                        /\ calls'[n].ids = <<w.maintenanceid>>
                        /\ [w EXCEPT !.name = calls'[n].mname] \in maintenances'
      ]_vars

C14_Witness ==
    /\ IsDelete
    /\ Printed("Deleted")
    /\ maintenances = {}
    /\ calls[1].ids = << <<"7">> >>

\* ------------------------------------------------------------------ C15
ErrorKinds == {"ErrorFetchingAllHosts", "ErrorFetchingHostId", "ErrorFetchingGroup",
               "ErrorCreatingMaintenance", "ErrorUpdatingMaintenanceName",
               "ErrorListing", "ErrorDeleting"}

\* C15: a remote call answered with an error envelope is the last remote
\* call of its invocation: no call follows it, the same call is not issued
\* again, and the step that receives the envelope ends the invocation with
\* the failure report as its only line after the call.
C15_ErrorEnvelopeEndsInvocation ==
    \A j \in DOMAIN replies :
        replies[j].reply = "error" =>
            /\ j = Len(calls)
            /\ Failed
            /\ LastLine.kind \in ErrorKinds
            /\ \A k \in 1..(j - 1) : replies[k].reply = "result"

C15_Witness ==
    /\ GroupsMode
    /\ Len(names) = 2
    /\ Len(calls) = 1
    /\ replies[1].reply = "error"
    /\ FailedWith("ErrorFetchingGroup")

\* ------------------------------------------------------------------ C16
AllGroupGets == {j \in DOMAIN calls : calls[j].method = "hostgroup.get"}

\* C16: groups are looked up in input order, and the first hostgroup.get
\* that returns no match ends the invocation with "Host group ... not found"
\* for that name: it is the last remote call, so no hostgroup.get for a later
\* group and no maintenance.create follows.
C16_FailFastOnUnknownGroup ==
    GroupsMode =>
        \A j \in AllGroupGets :
            /\ j <= Len(names) /\ calls[j].name = names[j]
            /\ NoMatch(j) =>
                /\ j = Len(calls)
                /\ FailedWith("HostGroupNotFound")
                /\ LastLine.arg = names[j]
                /\ ~Issued("maintenance.create")
                /\ ~Printed("Created")

C16_Witness ==
    /\ GroupsMode
    /\ Len(names) = 2
    /\ names[1] = <<"n">>
    /\ Len(calls) = 1
    /\ NoMatch(1)
    /\ FailedWith("HostGroupNotFound")

\* ------------------------------------------------------------------ C17
Updates == {j \in DOMAIN calls : calls[j].method = "maintenance.update"}

\* C17: in a create invocation maintenance.update is issued at most once,
\* directly after a maintenance.create that returned an identifier; it
\* addresses exactly that identifier and its new name embeds it; the
\* identifier printed to the operator is that of the create answer.
C17_RenameCarriesCreatedId ==
    IsCreate =>
        /\ Cardinality(Updates) <= 1
        /\ \A j \in Updates :
             /\ j >= 2
             /\ calls[j - 1].method = "maintenance.create"
             /\ replies[j - 1].reply = "result"
             /\ calls[j].ids = <<replies[j - 1].result[1]>>
             /\ calls[j].mname = [fmt |-> "id", ts |-> 0, mid |-> replies[j - 1].result[1]]
        /\ \A k \in DOMAIN output :
             output[k].msg = "Created" =>
                 /\ Updates # {}
                 /\ \A j \in Updates : output[k].arg = replies[j - 1].result[1]

C17_Witness ==
    /\ IsCreate
    /\ Printed("Created")
    /\ Len(calls) = 3
    /\ calls[3].method = "maintenance.update"
    /\ calls[3].ids = << <<"9">> >>
    /\ replies[2].result = << <<"9">> >>
    /\ OldWindow \in maintenances

\* ------------------------------------------------------------------ C18
CreatesOf(p) == {j \in DOMAIN calls[p] : calls[p][j].method = "maintenance.create"}

\* C18: of two create invocations running against the same remote system,
\* the maintenance.create requests carry different provisional names.
C18_ConcurrentNamesDistinct ==
    \A p, q \in Procs :
        p # q =>
            \A j \in CreatesOf(p), k \in CreatesOf(q) :
                calls[p][j].mname # calls[q][k].mname

\* ------------------------------------------------------------------ C19
Lookups == {j \in DOMAIN calls : calls[j].method \in {"host.get", "hostgroup.get"}}
Creates == {j \in DOMAIN calls : calls[j].method = "maintenance.create"}

\* C19: the remote calls of an invocation belong to one operation, whatever
\* options are supplied: maintenance.get only, or maintenance.delete only,
\* or lookups followed by at most one maintenance.create and then at most
\* one maintenance.update.
C19_CallsOfOneOperation ==
    /\ \E op \in {"list", "delete", "create"} :
         \A j \in DOMAIN calls : calls[j].method \in MethodsOf(op)
    /\ Cardinality(Creates) <= 1
    /\ Cardinality(Updates) <= 1
    /\ \A j \in Lookups, k \in Creates \cup Updates : j < k
    /\ \A j \in Creates, k \in Updates : j < k

C19_Witness ==
    /\ OpCount = 3
    /\ HasGroupList /\ HasHostList
    /\ Done
    /\ Len(calls) = 1
    /\ calls[1].method = "maintenance.get"
    /\ replies[1].reply = "result"

\* ------------------------------------------------------------------ C20
\* The calls made so far stay within one lookup per supplied name (one for
\* the wildcard) and the two calls of the create protocol, and the j-th
\* lookup is that of the j-th name: no entry is looked up twice.
WithinCallBudget ==
    /\ Lookups # {} => IsCreate
    /\ Cardinality(Lookups) <= (IF IsCreate /\ TargetMode(args) = "all" THEN 1 ELSE Len(names))
    /\ Len(calls) <= Cardinality(Lookups) + (IF IsCreate THEN 2 ELSE 1)
    /\ \A j \in Lookups :
         calls[j].name # None =>
             /\ j <= Len(names)
             /\ calls[j].name \in {names[j], Strip(names[j])}

\* The listing of a remote system without windows: its report has no line.
EmptyListing ==
    /\ Len(calls) = 1
    /\ calls[1].method = "maintenance.get"
    /\ replies[1] = [reply |-> "result", result |-> << >>]

\* C20: with every remote call answered, every invocation reaches its
\* terminal state with its report printed (an error line, the identifiers,
\* or the lines of the listing, none for an empty listing), having made at
\* most one lookup per supplied name plus the two calls of the create
\* protocol, each name being visited once.
C20_TerminatesWithinCallBudget ==
    /\ <>(Done /\ (output = << >> => EmptyListing))
    /\ []WithinCallBudget

C20_Witness ==
    /\ Done
    /\ HostsMode
    /\ Len(names) = 2
    /\ Len(calls) = 4
    /\ Printed("Created")

=============================================================================
